---- MODULE Spec2Model ----
(***************************************************************************)
(* SmartFeed: the RSS notification pipeline.                               *)
(*                                                                         *)
(*   notifier/lambda_function.py   NotifierLambda.process_notification     *)
(*   common/s3_manager.py          S3DataManager (feed list, history)      *)
(*   common/rss_analyzer.py        RSSAnalyzer (fetch, filter, score, rank)*)
(*   common/line_client.py         LineClient (delivery)                   *)
(*                                                                         *)
(* Time is counted in hours.  A timestamp string (isoformat, UTC) is       *)
(* modelled by the integer hour it denotes; the string comparisons of the  *)
(* code between two isoformat timestamps are comparisons of these hours.   *)
(* The two S3 objects are modelled by records with a `present` flag; every *)
(* get and put of S3 has an outcome chosen by the environment.             *)
(***************************************************************************)
EXTENDS Integers, Sequences, FiniteSets, TLC

\* ------------------------------------------------------------------ bounds
MaxLinks == 2          \* distinct article links the feeds can return
MaxArticles == 2       \* entries returned by all feeds together in one cycle
MaxCycles == 2         \* cycles started in one behaviour
MaxDays == 1           \* days the clock can advance
MaxFaults == 1         \* failures of S3 and of the delivery in one behaviour
MaxRetained == 2       \* largest max_history_size the operator configures
MaxAppends == 3        \* appends in one behaviour of the append alone

\* -------------------------------------------------------- program constants
HoursPerDay == 24
DEFAULT_MAX_HISTORY_SIZE == 1000
DEFAULT_CLEANUP_DAYS == 30
DEFAULT_RECENT_HOURS == 24
DEFAULT_ARTICLE_AGE_HOURS == 24
BASE_SCORE == 50
None == -1

Procs == {"run1", "run2"}
Links == 1..MaxLinks

\* ------------------------------------------------------------- sequences
RECURSIVE SelectSeqBy(_, _)
\* the subsequence of s at the indices of the set keep (order kept)
SelectSeqBy(s, keep) ==
    IF s = <<>> THEN <<>>
    ELSE LET n == Len(s)
             init == SelectSeqBy(SubSeq(s, 1, n - 1), keep)
         IN IF n \in keep THEN Append(init, s[n]) ELSE init

Range(s) == {s[i] : i \in DOMAIN s}

Min(S) == CHOOSE m \in S : \A x \in S : m <= x

\* round(num / den, 1) of Python 3 in tenths, for den > 0 and num >= 0: the
\* nearest tenth, a tie going to the even tenth (the quotients reached here
\* that are ties are binary fractions, which the float holds exactly)
Round1(num, den) ==
    LET q == (10 * num) \div den
        r == (10 * num) % den
    IN IF 2 * r < den THEN q
       ELSE IF 2 * r > den THEN q + 1
       ELSE IF q % 2 = 0 THEN q ELSE q + 1

\* --------------------------------------------------- stable sort (sorted())
RECURSIVE InsertIndex(_, _, _)
\* the index i put into the index sequence p, sorted by keys, after every
\* index whose key is <= keys[i]
InsertIndex(p, i, keys) ==
    IF p = <<>> THEN <<i>>
    ELSE IF keys[Head(p)] <= keys[i]
         THEN <<Head(p)>> \o InsertIndex(Tail(p), i, keys)
         ELSE <<i>> \o p

RECURSIVE SortedIndices(_, _)
\* the indices 1..n in ascending order of their keys, equal keys in index order
SortedIndices(n, keys) ==
    IF n = 0 THEN <<>> ELSE InsertIndex(SortedIndices(n - 1, keys), n, keys)

\* list.sort(key=...) and sorted(key=...): ascending in keys[i], the key of
\* s[i], and stable
SortByKeys(s, keys) ==
    LET p == SortedIndices(Len(s), keys) IN [i \in 1..Len(s) |-> s[p[i]]]

\* ---------------------------------------------------------------- S3 store
\* outcome of s3_client.get_object and of reading and decoding its body:
\*   "ok"            the object is returned (NoSuchKey when it is not stored)
\*   "client_error"  a botocore ClientError other than NoSuchKey
\*   "other_error"   any other exception (connection or read timeout, which
\*                   botocore raises as BotoCoreError, or a decoding error)
GetOutcomes == {"ok", "client_error", "other_error"}
\* outcome of s3_client.put_object: TRUE it is stored, FALSE it raises
PutOutcomes == BOOLEAN

\* ------------------------------------------------- rss-list.json (feed list)
RequiredFeedFields == {"id", "url", "title", "category"}

ZeroRssStatistics ==
    [total_feeds |-> 0, active_feeds |-> 0,
     total_articles_processed |-> 0, total_notifications_sent |-> 0,
     avg_articles_per_notification |-> 0]

\* no rss-list.json is stored
NoRssObject ==
    [present |-> FALSE, has_version |-> FALSE, has_feeds |-> FALSE,
     feeds |-> <<>>, statistics |-> ZeroRssStatistics]

\* the value of a descriptor's 'title': [words, len] as for every text
FeedTitle == [words |-> {}, len |-> 8]

\* a descriptor as stored: `fields` are the keys the stored object holds
Feed(id, category, enabled, fields) ==
    [id |-> id, title |-> FeedTitle, category |-> category, enabled |-> enabled,
     fields |-> fields]

_validate_rss_config(data) ==
    /\ data.has_version
    /\ data.has_feeds
    /\ \A i \in DOMAIN data.feeds : RequiredFeedFields \subseteq data.feeds[i].fields

\* [ok, store]: the validation runs on the data with its version set
save_rss_config(store, config_data, put) ==
    LET data == [config_data EXCEPT !.present = TRUE, !.has_version = TRUE]
    IN IF _validate_rss_config(data) /\ put
       THEN [ok |-> TRUE, store |-> data]
       ELSE [ok |-> FALSE, store |-> store]

DefaultRssConfig ==
    [present |-> TRUE, has_version |-> TRUE, has_feeds |-> TRUE,
     feeds |-> <<>>, statistics |-> ZeroRssStatistics]

\* [data, store, puts]: the default is saved, and returned whether or not the
\* save succeeded
_create_default_rss_config(store, put) ==
    [data |-> DefaultRssConfig,
     store |-> save_rss_config(store, DefaultRssConfig, put).store,
     puts |-> 1]

\* [raised, data, store, puts]
load_rss_config(store, get, put) ==
    IF get = "client_error"
    THEN [raised |-> TRUE, data |-> NoRssObject, store |-> store, puts |-> 0]
    ELSE IF get = "ok" /\ store.present /\ _validate_rss_config(store)
    THEN [raised |-> FALSE, data |-> store, store |-> store, puts |-> 0]
    ELSE \* NoSuchKey, a ValueError of the validation, or any other exception
         LET d == _create_default_rss_config(store, put)
         IN [raised |-> FALSE, data |-> d.data, store |-> d.store, puts |-> d.puts]

\* --------------------------------------- notified-history.json (the history)
HistoryConfig(max_history_size, cleanup_days) ==
    [max_history_size |-> max_history_size, cleanup_days |-> cleanup_days]

EmptyHistoryStatistics ==
    [total_notifications |-> 0, oldest_record |-> None,
     avg_daily_notifications |-> 0, category_stats |-> <<>>]

EmptyHistory(config) ==
    [present |-> TRUE, config |-> config, history |-> <<>>,
     statistics |-> EmptyHistoryStatistics]

DefaultHistory ==
    EmptyHistory(HistoryConfig(DEFAULT_MAX_HISTORY_SIZE, DEFAULT_CLEANUP_DAYS))

\* no notified-history.json is stored
NoHistoryObject == [DefaultHistory EXCEPT !.present = FALSE]

\* [ok, store]
save_notification_history(store, history_data, put) ==
    IF put THEN [ok |-> TRUE, store |-> [history_data EXCEPT !.present = TRUE]]
    ELSE [ok |-> FALSE, store |-> store]

\* [data, store, puts]
_create_default_history(store, put) ==
    [data |-> DefaultHistory,
     store |-> save_notification_history(store, DefaultHistory, put).store,
     puts |-> 1]

\* [raised, data, store, puts]
load_notification_history(store, get, put) ==
    IF get = "client_error"
    THEN [raised |-> TRUE, data |-> NoHistoryObject, store |-> store, puts |-> 0]
    ELSE IF get = "ok" /\ store.present
    THEN [raised |-> FALSE, data |-> store, store |-> store, puts |-> 0]
    ELSE \* NoSuchKey, or any exception that is not a ClientError
         LET d == _create_default_history(store, put)
         IN [raised |-> FALSE, data |-> d.data, store |-> d.store, puts |-> d.puts]

HistoryLinks(data) == {data.history[i].link : i \in DOMAIN data.history}

\* [notified, store, puts]: a raising load is answered False
is_article_notified(store, article_link, get, put) ==
    LET l == load_notification_history(store, get, put)
    IN [notified |-> ~l.raised /\ article_link \in HistoryLinks(l.data),
        store |-> l.store, puts |-> l.puts]

\* list[-n:] of Python: the last n elements, and the whole list for n = 0
LastN(s, n) ==
    IF n = 0 \/ n >= Len(s) THEN s ELSE SubSeq(s, Len(s) - n + 1, Len(s))

\* the age rule runs only when the size rule has evicted
_cleanup_history_SizeGated(history_data, clock) ==
    LET max_size == history_data.config.max_history_size
        sized == LastN(SortByKeys(history_data.history,
                                  [i \in DOMAIN history_data.history |->
                                      history_data.history[i].notified_at]),
                       max_size)
        cutoff == clock - HoursPerDay * history_data.config.cleanup_days
    IN IF Len(history_data.history) > max_size
       THEN [history_data EXCEPT
                !.history = SelectSeq(sized, LAMBDA h : h.notified_at > cutoff)]
       ELSE history_data

\* lines 328-353: the size rule, then the age rule
_cleanup_history(history_data, clock) ==
    LET max_size == history_data.config.max_history_size
        sized == IF Len(history_data.history) > max_size
                 THEN LastN(SortByKeys(history_data.history,
                                       [i \in DOMAIN history_data.history |->
                                           history_data.history[i].notified_at]),
                            max_size)
                 ELSE history_data.history
        cutoff == clock - HoursPerDay * history_data.config.cleanup_days
        kept == SelectSeq(sized, LAMBDA h : h.notified_at > cutoff)
    IN [history_data EXCEPT !.history = kept]

_update_history_statistics(history_data, clock) ==
    LET entries == history_data.history
        st0 == [history_data.statistics EXCEPT !.total_notifications = Len(entries)]
    IN IF entries = <<>> THEN [history_data EXCEPT !.statistics = st0]
       ELSE LET oldest == Min({entries[i].notified_at : i \in DOMAIN entries})
                cats == {entries[i].category : i \in DOMAIN entries}
                category_stats ==
                    [c \in cats |->
                        Cardinality({i \in DOMAIN entries : entries[i].category = c})]
                days_diff == (clock - oldest) \div HoursPerDay
                st1 == [st0 EXCEPT !.oldest_record = oldest,
                                   !.category_stats = category_stats]
                st2 == IF days_diff > 0
                       THEN [st1 EXCEPT !.avg_daily_notifications =
                                            Round1(Len(entries), days_diff)]
                       ELSE st1
            IN [history_data EXCEPT !.statistics = st2]

HistoryEntry(article, clock) ==
    [link |-> article.link, category |-> article.category, notified_at |-> clock]

RECURSIVE NewEntries(_, _)
NewEntries(articles, clock) ==
    IF articles = <<>> THEN <<>>
    ELSE <<HistoryEntry(Head(articles), clock)>> \o NewEntries(Tail(articles), clock)

\* lines 184-209 of append_notification_history: the loaded history with the
\* new entries appended, cleaned up, its statistics updated
AppendedHistory(history_data, articles, clock) ==
    _update_history_statistics(
        _cleanup_history(
            [history_data EXCEPT !.history = @ \o NewEntries(articles, clock)],
            clock),
        clock)

\* ------------------------------------------------------------- RSSAnalyzer
\* A title or a description is modelled by the keywords of the tables below
\* that occur in it (lower-cased) and, for a title, its length in characters.
\* The Japanese keywords are written in Latin letters.
Text(words, len) == [words |-> words, len |-> len]

\* a value that is not a string (None, a number): it has no lower() and no
\* `in`, and str() of it holds no keyword
NotAString == Text({}, None)
IsString(text) == text.len # None

\* _classify_article_type: trending_keywords and "popular", "trend"
TrendingKeywords == {"wadai", "ninki", "chuumoku", "bazu", "kyuujoushou",
                     "ranking", "popular", "trend"}
\* technical_keywords and "tutorial", "guide"
TechnicalKeywords == {"kaisetsu", "nyuumon", "kiso", "shoshinsha", "gakushuu",
                      "rikai", "shikumi", "genri", "tutorial", "guide"}
\* tool_keywords and "tool", "library"
ToolKeywords == {"tsuuru", "raiburari", "fureemuwaaku", "apuri", "saabisu",
                 "tsukaikata", "dounyuu", "tool", "library"}
\* analysis_keywords and "analysis", "report"
AnalysisKeywords == {"bunseki", "chousa", "repooto", "toukei", "deeta",
                     "hikaku", "kenshou", "kousatsu", "analysis", "report"}
\* DIFFICULTY_KEYWORDS
BeginnerKeywords == {"shoshinsha", "nyuumon", "kiso", "kihon", "hajimete",
                     "kantan", "yasashii"}
AdvancedKeywords == {"joukyuu", "koudo", "adobansu", "shousai", "fukai",
                     "puro", "ekisupaato"}
\* _calculate_priority_score: the two keyword bonuses
PopularKeywords == {"ninki", "wadai", "chuumoku"}
PracticalKeywords == {"jissen", "jissou", "tsukurikata", "yarikata"}

Matches(text, keywords) == text.words \cap keywords # {}

\* a published_at string: `parse` is whether datetime.fromisoformat reads it
\* as a time with a zone, `at` the hour it then denotes
Published(at) == [parse |-> TRUE, at |-> at]
Unparseable == [parse |-> FALSE, at |-> 0]

\* an entry of a parsed feed with a title and a link
Entry(link, title, description, published_at) ==
    [link |-> link, title |-> title, description |-> description,
     published_at |-> published_at]

NoMetadata == [article_type |-> "", difficulty |-> "", priority_score |-> 0, rank |-> 0]

_parse_entry(entry, feed) ==
    [title |-> entry.title, link |-> entry.link, description |-> entry.description,
     published_at |-> entry.published_at, feed_id |-> feed.id,
     feed_title |-> feed.title, category |-> feed.category,
     metadata |-> NoMetadata]

\* result of feedparser.parse for one feed: it raised, or the entries it gave
FeedResult(failed, entries) == [failed |-> failed, entries |-> entries]

_fetch_single_feed(feed, result) ==
    IF result.failed THEN <<>>
    ELSE [i \in DOMAIN result.entries |-> _parse_entry(result.entries[i], feed)]

\* an article whose time cannot be read is dropped
_filter_recent_articles_FailClosed(articles, hours, clock) ==
    SelectSeq(articles,
              LAMBDA a : a.published_at.parse /\ a.published_at.at >= clock - hours)

\* lines 281-307: an article is kept when its time is not before the cutoff,
\* and when reading or comparing its time raises
_filter_recent_articles(articles, hours, clock) ==
    LET cutoff_time == clock - hours
    IN SelectSeq(articles,
                 LAMBDA a : ~a.published_at.parse \/ a.published_at.at >= cutoff_time)

\* the tool terms are tested before the explainer terms
_classify_article_type_ToolFirst(article) ==
    IF ~(IsString(article.title) /\ IsString(article.description)
                                 /\ IsString(article.feed_title))
    THEN "news"
    ELSE IF Matches(article.title, TrendingKeywords) THEN "trend"
    ELSE IF Matches(article.title, ToolKeywords) THEN "tool"
    ELSE IF Matches(article.title, TechnicalKeywords) THEN "explainer"
    ELSE IF Matches(article.title, AnalysisKeywords) THEN "analysis"
    ELSE "news"

\* lines 344-385: lower() of the title, the description and the feed title,
\* then the first keyword list the title matches; "news" when anything raises
_classify_article_type(article) ==
    IF ~(IsString(article.title) /\ IsString(article.description)
                                 /\ IsString(article.feed_title))
    THEN "news"
    ELSE IF Matches(article.title, TrendingKeywords) THEN "trend"
    ELSE IF Matches(article.title, TechnicalKeywords) THEN "explainer"
    ELSE IF Matches(article.title, ToolKeywords) THEN "tool"
    ELSE IF Matches(article.title, AnalysisKeywords) THEN "analysis"
    ELSE "news"

_estimate_difficulty(article) ==
    LET text == Text(article.title.words \cup article.description.words, 0)
    IN IF Matches(text, BeginnerKeywords) THEN "beginner"
       ELSE IF Matches(text, AdvancedKeywords) THEN "advanced"
       ELSE "intermediate"

TypeWeight(article_type) ==
    CASE article_type = "trend" -> 30
      [] article_type = "news" -> 25
      [] article_type = "explainer" -> 20
      [] article_type = "tool" -> 15
      [] article_type = "analysis" -> 10
      [] OTHER -> 5

DifficultyWeight(difficulty) ==
    CASE difficulty = "beginner" -> 15
      [] difficulty = "intermediate" -> 10
      [] difficulty = "advanced" -> 5
      [] OTHER -> 0

RecencyBonus(published_at, clock) ==
    IF ~published_at.parse THEN 0
    ELSE LET hours_ago == clock - published_at.at
         IN IF hours_ago <= 6 THEN 20
            ELSE IF hours_ago <= 12 THEN 15
            ELSE IF hours_ago <= 24 THEN 10
            ELSE 0

TitleLengthBonus(title_len) ==
    IF 20 <= title_len /\ title_len <= 60 THEN 5
    ELSE IF title_len > 80 THEN -5
    ELSE 0

\* the sum is returned as it is
Clamp_Unbounded(score) == score

\* line 484: min(100.0, max(0.0, score))
Clamp(score) == IF score > 100 THEN 100 ELSE IF score < 0 THEN 0 ELSE score

\* lines 427-487: `keyword in title` raises for a title that is not a string,
\* and the except branch returns the base score
_calculate_priority_score(article, article_type, difficulty, clock) ==
    IF ~IsString(article.title) THEN BASE_SCORE
    ELSE
    Clamp(BASE_SCORE
          + TypeWeight(article_type)
          + DifficultyWeight(difficulty)
          + (IF Matches(article.title, PopularKeywords) THEN 10 ELSE 0)
          + (IF Matches(article.title, PracticalKeywords) THEN 5 ELSE 0)
          + RecencyBonus(article.published_at, clock)
          + TitleLengthBonus(article.title.len))

AnalyzeArticle(article, clock) ==
    LET article_type == _classify_article_type(article)
        difficulty == _estimate_difficulty(article)
    IN [article EXCEPT !.metadata =
           [article_type |-> article_type, difficulty |-> difficulty,
            priority_score |->
                _calculate_priority_score(article, article_type, difficulty, clock),
            rank |-> 0]]

_analyze_articles(articles, clock) ==
    [i \in DOMAIN articles |-> AnalyzeArticle(articles[i], clock)]

\* A dict of Python keeps its keys in insertion order: a dict from category to
\* article list is the sequence of its items [category, articles].
Item(category, articles) == [category |-> category, articles |-> articles]

Keys(dict) == [i \in DOMAIN dict |-> dict[i].category]

RECURSIVE Values(_)
\* the article lists of the dict, concatenated in the order of its keys
Values(dict) ==
    IF dict = <<>> THEN <<>> ELSE Head(dict).articles \o Values(Tail(dict))

\* the article is put at the head of its list
DictAppend_AtHead(dict, category, article) ==
    IF \E i \in DOMAIN dict : dict[i].category = category
    THEN [i \in DOMAIN dict |->
             IF dict[i].category = category
             THEN [category |-> category, articles |-> <<article>> \o dict[i].articles]
             ELSE dict[i]]
    ELSE Append(dict, [category |-> category, articles |-> <<article>>])

\* categorized[category].append(article), the key created when it is new
DictAppend(dict, category, article) ==
    IF \E i \in DOMAIN dict : dict[i].category = category
    THEN [i \in DOMAIN dict |->
             IF dict[i].category = category
             THEN Item(category, Append(dict[i].articles, article))
             ELSE dict[i]]
    ELSE Append(dict, Item(category, <<article>>))

\* an article without the key 'category'
NoCategory == ""

\* line 495: article.get('category', 'other')
CategoryOf(article) ==
    IF article.category = NoCategory THEN "other" ELSE article.category

RECURSIVE _group_by_category(_)
_group_by_category(articles) ==
    IF articles = <<>> THEN <<>>
    ELSE LET n == Len(articles)
         IN DictAppend(_group_by_category(SubSeq(articles, 1, n - 1)),
                       CategoryOf(articles[n]), articles[n])

\* sorted ascending and then reversed
_rank_articles_Reversed(articles) ==
    LET ascending ==
            SortByKeys(articles,
                       [i \in DOMAIN articles |-> articles[i].metadata.priority_score])
        sorted_articles ==
            [i \in DOMAIN ascending |-> ascending[Len(ascending) + 1 - i]]
    IN [i \in DOMAIN sorted_articles |->
           [sorted_articles[i] EXCEPT !.metadata.rank = i]]

\* lines 506-526: sorted() is stable, with reverse=True too; rank is i + 1 for
\* the 0-based i, the index of the sequence here
_rank_articles(articles) ==
    LET sorted_articles ==
            SortByKeys(articles,
                       [i \in DOMAIN articles |-> 0 - articles[i].metadata.priority_score])
    IN [i \in DOMAIN sorted_articles |->
           [sorted_articles[i] EXCEPT !.metadata.rank = i]]

\* the enabled flag is not looked at
ActiveFeeds_Unfiltered(feeds) == feeds

\* line 69: the descriptors whose 'enabled' is true or missing, in the order
\* of the list
ActiveFeeds(feeds) ==
    SelectSeq(feeds, LAMBDA feed : "enabled" \notin feed.fields \/ feed.enabled)

RECURSIVE Aggregate_Aborting(_, _, _)
\* the first failed fetch ends the batch
Aggregate_Aborting(active_feeds, results, order) ==
    IF order = <<>> \/ results[Head(order)].failed THEN <<>>
    ELSE _fetch_single_feed(active_feeds[Head(order)], results[Head(order)])
         \o Aggregate_Aborting(active_feeds, results, Tail(order))

RECURSIVE Aggregate(_, _, _)
\* all_articles: the articles of the completed fetches, in completion order
Aggregate(active_feeds, results, order) ==
    IF order = <<>> THEN <<>>
    ELSE _fetch_single_feed(active_feeds[Head(order)], results[Head(order)])
         \o Aggregate(active_feeds, results, Tail(order))

\* line 98: the recency filter is called without its `hours` argument, which
\* then has its default
RecentArticles(all_articles, clock) ==
    _filter_recent_articles(all_articles, DEFAULT_RECENT_HOURS, clock)

\* lines 101-105: the recent articles analysed and grouped
Grouped(recent_articles, clock) ==
    _group_by_category(_analyze_articles(recent_articles, clock))

\* lines 101-114: the recent articles analysed, grouped, ranked
AnalyzeRecent(recent_articles, clock) ==
    LET categorized == Grouped(recent_articles, clock)
    IN [i \in DOMAIN categorized |->
           Item(categorized[i].category, _rank_articles(categorized[i].articles))]

\* lines 93-114: the aggregated articles filtered, analysed, grouped, ranked
AnalyzeAll(all_articles, clock) ==
    IF all_articles = <<>> THEN <<>>
    ELSE AnalyzeRecent(RecentArticles(all_articles, clock), clock)

\* results[i] is the outcome of the fetch of the i-th enabled feed and order
\* the order in which the fetches complete
fetch_and_analyze_feeds(feeds, results, order, clock) ==
    LET active_feeds == ActiveFeeds(feeds)
    IN IF active_feeds = <<>> THEN <<>>
       ELSE AnalyzeAll(Aggregate(active_feeds, results, order), clock)

\* ---------------------------------------------------------- NotifierLambda
VARIABLES
    now,                  \* the clock, in hours
    rss_object,           \* rss-list.json as stored in the bucket
    history_object,       \* notified-history.json as stored in the bucket
    overlap,              \* whether invocations may overlap
    faults,               \* failures of S3 and of the delivery so far
    article_age_hours,    \* ARTICLE_AGE_HOURS as NotifierLambda.__init__ reads it
    cycles,               \* invocations started so far
    delivered,            \* links of the flex messages delivered so far
    pc,                   \* where each invocation is in process_notification
    rss_config,           \* its local rss_config
    categorized_articles, \* its local categorized_articles
    cursor,               \* the loops of _deduplicate_articles
    filtered_articles,    \* its local filtered_articles (filtered_categorized)
    history_data,         \* the history_data of append_notification_history
    history_success,      \* its local history_success
    response,             \* what process_notification returned
    audit                 \* what the invocation did to its collaborators

vars == <<now, rss_object, history_object, overlap, faults, article_age_hours,
          cycles, delivered, pc,
          rss_config, categorized_articles, cursor, filtered_articles,
          history_data, history_success, response, audit>>

\* _create_response: the status, and of the body the message, the article
\* count and the categories (0 and none when the body is a plain message)
_create_response(status_code, message, total_articles, categories) ==
    [statusCode |-> status_code, message |-> message,
     total_articles |-> total_articles, categories |-> categories]

NoResponse == _create_response(0, "", 0, <<>>)

NoCursor == [category |-> 1, article |-> 1, kept |-> <<>>]

\* the locals of fetch_and_analyze_feeds when it returns, with what the
\* fetches answered
NoFetch ==
    [submitted |-> <<>>,       \* the descriptors a fetch task was submitted for
     completed |-> <<>>,       \* the tasks that have ended, in that order
     results |-> <<>>,         \* what each task's feed answered
     all_articles |-> <<>>, recent_articles |-> <<>>,
     grouped |-> <<>>]         \* categorized, before the ranking

\* a feed command of the user, 追加 <url> or 削除 <number>, as the webhook
\* handles it: `arg` is the url (a descriptor's id stands for its url) or the
\* number; `feed` the id of the descriptor the handler added or deleted;
\* `in_cycle` whether a cycle was running when the handler saved
Command(kind, arg) ==
    [kind |-> kind, arg |-> arg, feed |-> 0, outcome |-> "pending",
     in_cycle |-> FALSE]

NoCommand == [Command("none", 0) EXCEPT !.outcome = "none"]

NoAudit ==
    [command |-> NoCommand,   \* the command a webhook invocation handles
     history_puts |-> 0,      \* put_object calls on notified-history.json
     history_gets |-> 0,      \* get_object calls on notified-history.json
     rss_before |-> NoRssObject, \* rss-list.json when the invocation began
     appended_to |-> NoHistoryObject, \* the stored history when append loaded
     fetched |-> NoFetch,     \* the last fetch_and_analyze_feeds, until the
                              \* invocation moves on
     scored |-> <<>>,         \* the last _calculate_priority_score call:
                              \* its arguments and its result
     flex_sends |-> 0,        \* send_flex_message calls
     flex_delivered |-> FALSE, \* send_flex_message returned True
     text_sends |-> 0,        \* send_text_message calls
     append_calls |-> 0,      \* append_notification_history calls
     fetches |-> 0,           \* _fetch_single_feed tasks submitted
     config_returned |-> FALSE, \* load_rss_config returned a feed list
     config_invalid |-> FALSE, \* the stored list failed _validate_rss_config
     read_failures |-> 0,     \* history reads of the dedup step that failed,
                              \* NoSuchKey aside
     dedup_done |-> FALSE,    \* _deduplicate_articles returned
     history_before |-> <<>>, \* the stored entries when the invocation began
     delivered_before |-> {}, \* the links delivered before the invocation began
     links_at_dedup |-> {}]   \* the stored links when the dedup step began

\* the feed lists a bucket can hold when the first invocation starts
AllFields == RequiredFeedFields \cup {"enabled"}

MixedFeeds ==
    <<Feed(1, "tech", TRUE, AllFields), Feed(2, "news", TRUE, AllFields),
      Feed(3, "news", FALSE, AllFields)>>

StoredRss(has_version, feeds) ==
    [present |-> TRUE, has_version |-> has_version, has_feeds |-> TRUE,
     feeds |-> feeds,
     statistics |-> [ZeroRssStatistics EXCEPT
                        !.total_feeds = Len(feeds),
                        !.active_feeds = Len(ActiveFeeds(feeds))]]

InitialRssObjects ==
    { NoRssObject,
      StoredRss(TRUE, MixedFeeds),
      StoredRss(TRUE, <<>>),
      StoredRss(TRUE, <<Feed(3, "news", FALSE, AllFields)>>),
      StoredRss(FALSE, MixedFeeds),
      StoredRss(TRUE, <<Feed(1, "tech", TRUE, AllFields \ {"url"})>>),
      [StoredRss(TRUE, <<>>) EXCEPT !.has_feeds = FALSE] }

\* the histories a bucket can hold when the first invocation starts: none, or
\* an empty one whose retention is configured small
SmallRetention == HistoryConfig(2, 1)

InitialHistoryObjects == { NoHistoryObject, EmptyHistory(SmallRetention) }

\* what the feeds can return
MainTitle == Text({}, 30)
NoText == Text({}, 0)

Entries(clock) ==
    { Entry(link, MainTitle, NoText, published_at) :
        link \in Links,
        published_at \in {Published(clock - 3), Published(clock - 30)} }

RECURSIVE SeqsUpTo(_, _)
\* the sequences over S of length at most n
SeqsUpTo(S, n) ==
    IF n = 0 THEN {<<>>}
    ELSE LET shorter == SeqsUpTo(S, n - 1)
         IN shorter \cup {Append(q, x) : q \in shorter, x \in S}

FeedResults(entries, budget) ==
    {FeedResult(TRUE, <<>>)}
        \cup {FeedResult(FALSE, given) : given \in SeqsUpTo(entries, budget)}

RECURSIVE ResultsOf(_, _, _)
\* the outcomes of n fetches that return at most budget entries together
ResultsOf(n, entries, budget) ==
    IF n = 0 THEN {<<>>}
    ELSE UNION { {Append(others, result) :
                     others \in ResultsOf(n - 1, entries, budget - Len(result.entries))} :
                 result \in FeedResults(entries, budget) }

CompletionOrders(n) ==
    {order \in [1..n -> 1..n] : \A i, j \in 1..n : order[i] = order[j] => i = j}

TypeOK ==
    /\ now \in 0..((MaxDays + 1) * HoursPerDay)
    /\ cycles \in 0..MaxCycles \/ cycles \in 0..MaxAppends
    /\ overlap \in BOOLEAN
    /\ faults \in 0..MaxFaults
    /\ delivered \subseteq Links
    /\ pc \in [Procs -> {"idle", "fetch", "gather", "dedup", "send", "append",
                         "save", "statistics", "command", "done"}]

\* the state when the first invocation starts: the Lambda's environment holds
\* ARTICLE_AGE_HOURS = age and the bucket a feed list of `feed_lists` and a
\* history of `histories`
ConstructedFor(age, feed_lists, histories, overlapping) ==
    /\ now = 0
    /\ rss_object \in feed_lists
    /\ history_object \in histories
    /\ overlap = overlapping
    /\ faults = 0
    /\ article_age_hours = age
    /\ cycles = 0
    /\ delivered = {}
    /\ pc = [p \in Procs |-> "idle"]
    /\ rss_config = [p \in Procs |-> NoRssObject]
    /\ categorized_articles = [p \in Procs |-> <<>>]
    /\ cursor = [p \in Procs |-> NoCursor]
    /\ filtered_articles = [p \in Procs |-> <<>>]
    /\ history_data = [p \in Procs |-> NoHistoryObject]
    /\ history_success = [p \in Procs |-> FALSE]
    /\ response = [p \in Procs |-> NoResponse]
    /\ audit = [p \in Procs |-> NoAudit]

\* the invocations are serialized: one ends before the next starts
Constructed(age, feed_lists, histories) ==
    ConstructedFor(age, feed_lists, histories, FALSE)

Init == Constructed(DEFAULT_ARTICLE_AGE_HOURS, InitialRssObjects, InitialHistoryObjects)

\* The environment answers one get of an object and, when the code then puts
\* (puts > 0), that put; each failure counts against the bound
Failures(get, puts, put) ==
    (IF get # "ok" THEN 1 ELSE 0) + (IF puts > 0 /\ ~put THEN 1 ELSE 0)

Environment(get, puts, put) ==
    /\ puts = 0 => put
    /\ faults + Failures(get, puts, put) <= MaxFaults
    /\ faults' = faults + Failures(get, puts, put)

\* an invocation may start: invocations are interchangeable, and when they do
\* not overlap the next one is taken to be the first process
MayStart(p) ==
    /\ pc[p] = "idle"
    /\ cycles < MaxCycles
    /\ overlap \/ (p = "run1" /\ \A q \in Procs : pc[q] = "idle")

\* process_notification returns
Return(p, r) ==
    /\ pc' = [pc EXCEPT ![p] = "done"]
    /\ response' = [response EXCEPT ![p] = r]

\* lines 84-92 and, when load_rss_config raises, 148-159
LoadConfig(p) ==
    /\ MayStart(p)
    /\ cycles' = cycles + 1
    /\ \E get \in GetOutcomes, put \in PutOutcomes :
        LET l == load_rss_config(rss_object, get, put)
            a == [audit[p] EXCEPT
                     !.history_before = history_object.history,
                     !.rss_before = rss_object,
                     !.config_invalid =
                         get = "ok" /\ rss_object.present
                                    /\ ~_validate_rss_config(rss_object),
                     !.delivered_before = delivered,
                     !.config_returned = ~l.raised]
        IN /\ Environment(get, l.puts, put)
           /\ rss_object' = l.store
           /\ IF l.raised
              THEN /\ Return(p, _create_response(500, "error", 0, <<>>))
                   /\ audit' = [audit EXCEPT ![p] = [a EXCEPT !.text_sends = @ + 1]]
                   /\ UNCHANGED rss_config
              ELSE /\ audit' = [audit EXCEPT ![p] = a]
                   /\ rss_config' = [rss_config EXCEPT ![p] = l.data]
                   /\ IF l.data.feeds = <<>>
                      THEN Return(p, _create_response(200, "no feeds", 0, <<>>))
                      ELSE /\ pc' = [pc EXCEPT ![p] = "fetch"]
                           /\ UNCHANGED response
    /\ UNCHANGED <<article_age_hours, now, history_object, overlap, delivered, categorized_articles,
                   cursor, filtered_articles, history_data, history_success>>

\* lines 94-99, the feeds answering with entries of `entries`
FetchFrom(p, entries) ==
    /\ pc[p] = "fetch"
    /\ LET active_feeds == ActiveFeeds(rss_config[p].feeds)
           n == Len(active_feeds)
       IN \E results \in ResultsOf(n, entries, MaxArticles),
             order \in CompletionOrders(n) :
            /\ LET categorized ==
                       fetch_and_analyze_feeds(rss_config[p].feeds, results, order, now)
                   all_articles == Aggregate(active_feeds, results, order)
                   recent_articles == IF all_articles = <<>> THEN <<>>
                                      ELSE RecentArticles(all_articles, now)
               IN /\ categorized_articles' =
                         [categorized_articles EXCEPT ![p] = categorized]
                  /\ audit' = [audit EXCEPT ![p].fetches = n,
                                            ![p].links_at_dedup =
                                                HistoryLinks(history_object),
                                            ![p].fetched =
                                                [submitted |-> active_feeds,
                                                 completed |-> order,
                                                 results |-> results,
                                                 all_articles |-> all_articles,
                                                 recent_articles |-> recent_articles,
                                                 grouped |-> Grouped(recent_articles, now)]]
                  /\ IF categorized = <<>>
                     THEN Return(p, _create_response(200, "no new articles", 0, <<>>))
                     ELSE /\ pc' = [pc EXCEPT ![p] = "dedup"]
                          /\ UNCHANGED response
    /\ UNCHANGED <<article_age_hours, faults, now, rss_object, history_object, overlap, cycles, delivered,
                   rss_config, cursor, filtered_articles, history_data,
                   history_success>>

Fetch(p) == FetchFrom(p, Entries(now))

\* the article the loops of _deduplicate_articles are at
CurrentItem(p) == categorized_articles[p][cursor[p].category]
CurrentArticle(p) == CurrentItem(p).articles[cursor[p].article]

\* every category is entered, with or without articles
WithCategory_KeepsEmpty(filtered_categorized, category, kept) ==
    Append(filtered_categorized, Item(category, kept))

\* lines 176-178: the category is kept when some article of it is
WithCategory(filtered_categorized, category, kept) ==
    IF kept # <<>> THEN Append(filtered_categorized, Item(category, kept))
    ELSE filtered_categorized

\* lines 172-174: the article is kept unless it is notified
KeepUnlessNotified(kept, article, notified) ==
    IF ~notified THEN Append(kept, article) ELSE kept

\* the empty unseen set is not noticed
NothingNew_Never(filtered) == FALSE

\* line 104
NothingNew(filtered) == filtered = <<>>

\* lines 101-106: one pass of the inner loop of _deduplicate_articles and,
\* after the last article, the return of the unseen set to process_notification
Deduplicate(p) ==
    /\ pc[p] = "dedup"
    /\ \E get \in GetOutcomes, put \in PutOutcomes :
        LET article == CurrentArticle(p)
            r == is_article_notified(history_object, article.link, get, put)
            kept == KeepUnlessNotified(cursor[p].kept, article, r.notified)
            last_article == cursor[p].article = Len(CurrentItem(p).articles)
            last_category == cursor[p].category = Len(categorized_articles[p])
            filtered == IF last_article
                        THEN WithCategory(filtered_articles[p],
                                          CurrentItem(p).category, kept)
                        ELSE filtered_articles[p]
            a == [audit[p] EXCEPT
                     !.history_puts = @ + r.puts,
                     !.history_gets = @ + 1,
                     !.fetched = NoFetch,
                     !.read_failures = @ + (IF get # "ok" THEN 1 ELSE 0),
                     !.dedup_done = last_article /\ last_category]
        IN /\ Environment(get, r.puts, put)
           /\ history_object' = r.store
           /\ filtered_articles' = [filtered_articles EXCEPT ![p] = filtered]
           /\ audit' = [audit EXCEPT ![p] = a]
           /\ IF ~last_article
              THEN /\ cursor' = [cursor EXCEPT ![p].article = @ + 1, ![p].kept = kept]
                   /\ UNCHANGED <<pc, response>>
              ELSE IF ~last_category
              THEN /\ cursor' = [cursor EXCEPT ![p] =
                                    [category |-> cursor[p].category + 1,
                                     article |-> 1, kept |-> <<>>]]
                   /\ UNCHANGED <<pc, response>>
              ELSE /\ cursor' = [cursor EXCEPT ![p] = NoCursor]
                   /\ IF NothingNew(filtered)
                      THEN Return(p, _create_response(200, "already notified", 0, <<>>))
                      ELSE /\ pc' = [pc EXCEPT ![p] = "send"]
                           /\ UNCHANGED response
    /\ UNCHANGED <<article_age_hours, now, rss_object, overlap, cycles, delivered, rss_config,
                   categorized_articles, history_data, history_success>>

\* the failed delivery is not noticed
DeliveryFailed_Ignored(success) == FALSE

\* line 122
DeliveryFailed(success) == ~success

\* lines 108-124: send_flex_message answers True or False and never raises
Send(p) ==
    /\ pc[p] = "send"
    /\ \E success \in BOOLEAN :
        /\ Environment("ok", 1, success)
        /\ audit' = [audit EXCEPT ![p].flex_sends = @ + 1,
                                  ![p].flex_delivered = success]
        /\ IF DeliveryFailed(success)
           THEN /\ Return(p, _create_response(500, "send failed", 0, <<>>))
                /\ UNCHANGED delivered
           ELSE /\ pc' = [pc EXCEPT ![p] = "append"]
                /\ delivered' = delivered \cup
                       {a.link : a \in Range(Values(filtered_articles[p]))}
                /\ UNCHANGED response
    /\ categorized_articles' = [categorized_articles EXCEPT ![p] = <<>>]
    /\ UNCHANGED <<article_age_hours, now, rss_object, history_object, overlap, cycles, rss_config,
                   cursor, filtered_articles, history_data, history_success>>

\* lines 126-131 and, of append_notification_history, lines 180-182: the load.
\* A raising load ends append_notification_history with False
AppendLoad(p) ==
    /\ pc[p] = "append"
    /\ \E get \in GetOutcomes, put \in PutOutcomes :
        LET l == load_notification_history(history_object, get, put)
        IN /\ Environment(get, l.puts, put)
           /\ history_object' = l.store
           /\ audit' = [audit EXCEPT
                           ![p].append_calls = @ + 1,
                           ![p].history_gets = @ + 1,
                           ![p].appended_to = history_object,
                           ![p].history_puts = @ + l.puts]
           /\ IF l.raised
              THEN /\ pc' = [pc EXCEPT ![p] = "statistics"]
                   /\ history_success' = [history_success EXCEPT ![p] = FALSE]
                   /\ UNCHANGED history_data
              ELSE /\ pc' = [pc EXCEPT ![p] = "save"]
                   /\ history_data' = [history_data EXCEPT ![p] = l.data]
                   /\ UNCHANGED history_success
    /\ UNCHANGED <<article_age_hours, now, rss_object, overlap, cycles, delivered, rss_config,
                   categorized_articles, cursor, filtered_articles, response>>

\* the save appends to the history that is stored when it is made
AppendSave_OnStored(p) ==
    /\ pc[p] = "save"
    /\ \E put \in PutOutcomes :
        LET data == AppendedHistory(history_object,
                                    Values(filtered_articles[p]), now)
            saved == save_notification_history(history_object, data, put)
        IN /\ Environment("ok", 1, put)
           /\ history_object' = saved.store
           /\ history_success' = [history_success EXCEPT ![p] = saved.ok]
           /\ history_data' = [history_data EXCEPT ![p] = data]
           /\ audit' = [audit EXCEPT ![p].history_puts = @ + 1]
    /\ pc' = [pc EXCEPT ![p] = "statistics"]
    /\ UNCHANGED <<article_age_hours, now, rss_object, overlap, cycles, delivered, rss_config,
                   categorized_articles, cursor, filtered_articles, response>>

\* append_notification_history, lines 184-215: the entries, the cleanup, the
\* statistics and the save
AppendSave(p) ==
    /\ pc[p] = "save"
    /\ \E put \in PutOutcomes :
        LET data == AppendedHistory(history_data[p],
                                    Values(filtered_articles[p]), now)
            saved == save_notification_history(history_object, data, put)
        IN /\ Environment("ok", 1, put)
           /\ history_object' = saved.store
           /\ history_success' = [history_success EXCEPT ![p] = saved.ok]
           /\ history_data' = [history_data EXCEPT ![p] = data]
           /\ audit' = [audit EXCEPT ![p].history_puts = @ + 1]
    /\ pc' = [pc EXCEPT ![p] = "statistics"]
    /\ UNCHANGED <<article_age_hours, now, rss_object, overlap, cycles, delivered, rss_config,
                   categorized_articles, cursor, filtered_articles, response>>

\* _update_rss_statistics, lines 190-202
UpdatedRssStatistics(config, notification_count) ==
    LET sent == config.statistics.total_notifications_sent + 1
        processed == config.statistics.total_articles_processed + notification_count
    IN [config EXCEPT !.statistics.total_notifications_sent = sent,
                      !.statistics.total_articles_processed = processed,
                      !.statistics.avg_articles_per_notification =
                          Round1(processed, sent)]

\* a failed history update fails the cycle
SuccessResponse_FailsOnHistory(history_ok, filtered) ==
    IF history_ok
    THEN _create_response(200, "completed", Len(Values(filtered)), Keys(filtered))
    ELSE _create_response(500, "history update failed", 0, <<>>)

\* lines 133-146: the response after the history update, whatever it returned
SuccessResponse(history_ok, filtered) ==
    _create_response(200, "completed", Len(Values(filtered)), Keys(filtered))

\* lines 133-146: the statistics of the feed list are saved and the cycle
\* returns its result
UpdateStatistics(p) ==
    /\ pc[p] = "statistics"
    /\ \E put \in PutOutcomes :
        LET config == UpdatedRssStatistics(rss_config[p],
                                           Len(Values(filtered_articles[p])))
        IN /\ Environment("ok", 1, put)
           /\ rss_object' = save_rss_config(rss_object, config, put).store
           /\ rss_config' = [rss_config EXCEPT ![p] = config]
    /\ Return(p, SuccessResponse(history_success[p], filtered_articles[p]))
    /\ history_data' = [history_data EXCEPT ![p] = NoHistoryObject]
    /\ UNCHANGED <<article_age_hours, now, history_object, overlap, cycles, delivered,
                   categorized_articles, cursor, filtered_articles,
                   history_success, audit>>

\* the invocation has ended: the process is free for the next one
Finish(p) ==
    /\ pc[p] = "done"
    /\ pc' = [pc EXCEPT ![p] = "idle"]
    /\ rss_config' = [rss_config EXCEPT ![p] = NoRssObject]
    /\ categorized_articles' = [categorized_articles EXCEPT ![p] = <<>>]
    /\ cursor' = [cursor EXCEPT ![p] = NoCursor]
    /\ filtered_articles' = [filtered_articles EXCEPT ![p] = <<>>]
    /\ history_data' = [history_data EXCEPT ![p] = NoHistoryObject]
    /\ history_success' = [history_success EXCEPT ![p] = FALSE]
    /\ response' = [response EXCEPT ![p] = NoResponse]
    /\ audit' = [audit EXCEPT ![p] = NoAudit]
    /\ UNCHANGED <<article_age_hours, faults, now, rss_object, history_object, overlap, cycles, delivered>>

\* a day passes between two invocations (an invocation lasts minutes)
Tick ==
    /\ \A p \in Procs : pc[p] = "idle"
    /\ now < MaxDays * HoursPerDay
    /\ now' = now + HoursPerDay
    /\ UNCHANGED <<article_age_hours, faults, rss_object, history_object, overlap, cycles, delivered, pc,
                   rss_config, categorized_articles, cursor, filtered_articles,
                   history_data, history_success, response, audit>>

\* --------------------------------------------- the fetch coordinator alone
\* The values ARTICLE_AGE_HOURS is set to, and entries of every age around
\* them, with and without a readable time
AgeSettings == {12, DEFAULT_ARTICLE_AGE_HOURS, 48}

ArticleAges == {6, 24, 25}

DatedEntries(clock) ==
    { Entry(link, MainTitle, NoText, published_at) :
        link \in Links,
        published_at \in {Published(clock - age) : age \in ArticleAges}
                            \cup {Unparseable} }

FetchDated(p) == FetchFrom(p, DatedEntries(now))

FetchInit ==
    \E age \in AgeSettings : Constructed(age, InitialRssObjects, InitialHistoryObjects)

FetchNext ==
    \/ \E p \in Procs : LoadConfig(p)
    \/ \E p \in Procs : FetchDated(p)

FetchSpec == FetchInit /\ [][FetchNext]_vars

\* ------------------------------------ append_notification_history alone
\* The retention a stored history can be configured with: the config block of
\* notified-history.json is written by the operator, the code only reads it
RetentionConfigs ==
    {HistoryConfig(max_history_size, cleanup_days) :
        max_history_size \in 1..MaxRetained, cleanup_days \in 0..MaxDays}

\* what a cycle can deliver: the articles of a fetch, none of them notified.
\* The feeds return fresh entries, which differ in their feed only
FreshEntries(clock) == {Entry(1, MainTitle, NoText, Published(clock - 3))}

DeliveredSets(clock) ==
    {fetch_and_analyze_feeds(MixedFeeds, results, order, clock) :
        results \in ResultsOf(2, FreshEntries(clock), MaxArticles),
        order \in CompletionOrders(2)} \ {<<>>}

\* lines 84-129 when the feed list loads, no article is notified and the
\* delivery succeeds: the invocation is about to append what it delivered
DeliverSome(p) ==
    /\ pc[p] = "idle" /\ p = "run1"
    /\ cycles < MaxAppends
    /\ cycles' = cycles + 1
    /\ \E filtered \in DeliveredSets(now) :
        /\ filtered_articles' = [filtered_articles EXCEPT ![p] = filtered]
        /\ delivered' = delivered \cup {a.link : a \in Range(Values(filtered))}
    /\ audit' = [audit EXCEPT ![p] =
                     [NoAudit EXCEPT !.history_before = history_object.history,
                                     !.flex_sends = 1,
                                     !.flex_delivered = TRUE]]
    /\ pc' = [pc EXCEPT ![p] = "append"]
    /\ UNCHANGED <<article_age_hours, faults, now, rss_object, history_object, overlap,
                   rss_config, categorized_articles, cursor, history_data,
                   history_success, response>>

\* append_notification_history has returned and the invocation ends
AppendReturn(p) ==
    /\ pc[p] = "statistics"
    /\ pc' = [pc EXCEPT ![p] = "idle"]
    /\ filtered_articles' = [filtered_articles EXCEPT ![p] = <<>>]
    /\ history_data' = [history_data EXCEPT ![p] = NoHistoryObject]
    /\ history_success' = [history_success EXCEPT ![p] = FALSE]
    /\ audit' = [audit EXCEPT ![p] = NoAudit]
    /\ UNCHANGED <<article_age_hours, faults, now, rss_object, history_object, overlap,
                   cycles, delivered, rss_config, categorized_articles, cursor,
                   response>>

\* half a day passes between two invocations, until the oldest entry can be
\* older than the longest retention
HalfDay ==
    /\ \A p \in Procs : pc[p] = "idle"
    /\ now <= MaxDays * HoursPerDay
    /\ now' = now + HoursPerDay \div 2
    /\ UNCHANGED <<article_age_hours, faults, rss_object, history_object, overlap, cycles,
                   delivered, pc, rss_config, categorized_articles, cursor,
                   filtered_articles, history_data, history_success, response, audit>>

\* the operator edits the config block of the stored history
Reconfigure ==
    /\ \A p \in Procs : pc[p] = "idle"
    /\ history_object.present
    /\ \E config \in RetentionConfigs \ {history_object.config} :
        history_object' = [history_object EXCEPT !.config = config]
    /\ UNCHANGED <<article_age_hours, faults, now, rss_object, overlap, cycles, delivered,
                   pc, rss_config, categorized_articles, cursor, filtered_articles,
                   history_data, history_success, response, audit>>

AppendInit ==
    Constructed(DEFAULT_ARTICLE_AGE_HOURS, {StoredRss(TRUE, MixedFeeds)},
                {NoHistoryObject} \cup {EmptyHistory(config) : config \in RetentionConfigs})

AppendNext ==
    \/ \E p \in Procs : DeliverSome(p)
    \/ \E p \in Procs : AppendLoad(p)
    \/ \E p \in Procs : AppendSave(p)
    \/ \E p \in Procs : AppendReturn(p)
    \/ HalfDay
    \/ Reconfigure

AppendSpec == AppendInit /\ [][AppendNext]_vars

\* ------------------------------------------- the fetch tasks, one by one
\* The fetch of FetchFrom in its steps: the tasks are submitted, each ends
\* when its feed has answered, and the coordinator goes on after the pool.
\* A feed list whose first descriptor has no 'enabled' key is added.
GatherRssObjects ==
    InitialRssObjects
        \cup {StoredRss(TRUE, <<Feed(1, "tech", TRUE, AllFields \ {"enabled"}),
                                Feed(2, "news", FALSE, AllFields)>>)}

\* a task that has not ended has no answer yet
NoResult == FeedResult(TRUE, <<>>)

\* the coordinator goes on as soon as one task has ended
Barrier_FirstCompleted(completed, n) == n = 0 \/ completed # <<>>

\* lines 77-91: the as_completed loop ends, and the `with` block of the pool
\* is left, when each of the n submitted tasks has ended
Barrier(completed, n) == Len(completed) = n

\* lines 69-81: the enabled descriptors are selected and a task is submitted
\* for each; with none, {} is returned at once
Submit(p) ==
    /\ pc[p] = "fetch"
    /\ LET active_feeds == ActiveFeeds(rss_config[p].feeds)
           n == Len(active_feeds)
       IN /\ audit' = [audit EXCEPT
                 ![p].fetches = n,
                 ![p].links_at_dedup = HistoryLinks(history_object),
                 ![p].fetched = [NoFetch EXCEPT
                                    !.submitted = active_feeds,
                                    !.results = [i \in 1..n |-> NoResult]]]
          /\ IF active_feeds = <<>>
             THEN Return(p, _create_response(200, "no new articles", 0, <<>>))
             ELSE /\ pc' = [pc EXCEPT ![p] = "gather"]
                  /\ UNCHANGED response
    /\ UNCHANGED <<article_age_hours, faults, now, rss_object, history_object,
                   overlap, cycles, delivered, rss_config, categorized_articles,
                   cursor, filtered_articles, history_data, history_success>>

\* the entries the tasks that have ended returned
Returned(fetched) ==
    Len(Aggregate(fetched.submitted, fetched.results, fetched.completed))

\* lines 83-91: one task ends, its feed having failed or answered
Complete(p) ==
    /\ pc[p] = "gather"
    /\ LET fetched == audit[p].fetched
       IN \E i \in DOMAIN fetched.submitted :
            /\ \A k \in DOMAIN fetched.completed : fetched.completed[k] # i
            /\ \E result \in FeedResults(Entries(now),
                                          MaxArticles - Returned(fetched)) :
                 audit' = [audit EXCEPT
                     ![p].fetched.results[i] = result,
                     ![p].fetched.completed = Append(@, i)]
    /\ UNCHANGED <<article_age_hours, faults, now, rss_object, history_object,
                   overlap, cycles, delivered, pc, rss_config,
                   categorized_articles, cursor, filtered_articles, history_data,
                   history_success, response>>

\* lines 93-114: past the pool, the articles are filtered, analysed, grouped
\* and ranked
Collect(p) ==
    /\ pc[p] = "gather"
    /\ LET fetched == audit[p].fetched
           n == Len(fetched.submitted)
       IN /\ Barrier(fetched.completed, n)
          /\ LET all_articles ==
                     Aggregate(fetched.submitted, fetched.results, fetched.completed)
                 recent_articles == IF all_articles = <<>> THEN <<>>
                                    ELSE RecentArticles(all_articles, now)
                 categorized == AnalyzeAll(all_articles, now)
             IN /\ categorized_articles' =
                       [categorized_articles EXCEPT ![p] = categorized]
                /\ audit' = [audit EXCEPT
                       ![p].fetched.all_articles = all_articles,
                       ![p].fetched.recent_articles = recent_articles,
                       ![p].fetched.grouped = Grouped(recent_articles, now)]
                /\ IF categorized = <<>>
                   THEN Return(p, _create_response(200, "no new articles", 0, <<>>))
                   ELSE /\ pc' = [pc EXCEPT ![p] = "dedup"]
                        /\ UNCHANGED response
    /\ UNCHANGED <<article_age_hours, faults, now, rss_object, history_object,
                   overlap, cycles, delivered, rss_config, cursor,
                   filtered_articles, history_data, history_success>>

GatherInit ==
    Constructed(DEFAULT_ARTICLE_AGE_HOURS, GatherRssObjects, {NoHistoryObject})

GatherNext ==
    \/ \E p \in Procs : LoadConfig(p)
    \/ \E p \in Procs : Submit(p)
    \/ \E p \in Procs : Complete(p)
    \/ \E p \in Procs : Collect(p)

GatherSpec == GatherInit /\ [][GatherNext]_vars

\* ------------------------------------------------------ the analysis alone
\* The titles an article can have: every combination of a trend, an
\* explainer, a tool, an analysis, a practical and a beginner term, at each
\* length tier; and a title that is not a string
TitleTerms == {"ninki", "kaisetsu", "tsuuru", "bunseki", "jissen", "kihon"}
TitleLengths == {10, 30, 70, 90}
Titles ==
    {Text(words, len) : words \in SUBSET TitleTerms, len \in TitleLengths}
        \cup {NotAString}

\* the hours since publication, one in each recency tier and on each edge
HoursAgo == {3, 6, 7, 12, 13, 24, 25}
PublishedTimes(clock) == {Published(clock - h) : h \in HoursAgo} \cup {Unparseable}

\* the tags _calculate_priority_score can be called with
TypeTags == {"trend", "news", "explainer", "tool", "analysis", "unknown"}
DifficultyTags == {"beginner", "intermediate", "advanced", "unknown"}

Article(link, title, description, published_at, feed_title, category) ==
    [title |-> title, link |-> link, description |-> description,
     published_at |-> published_at, feed_id |-> 1, feed_title |-> feed_title,
     category |-> category, metadata |-> NoMetadata]

\* one call of _calculate_priority_score
Score(p) ==
    /\ p = "run1"
    /\ pc[p] = "idle"
    /\ audit[p] = NoAudit
    /\ \E title \in Titles, published_at \in PublishedTimes(now),
          article_type \in TypeTags, difficulty \in DifficultyTags :
        LET article == Article(1, title, NoText, published_at, FeedTitle, "tech")
        IN audit' = [audit EXCEPT
               ![p].scored =
                   <<[article |-> article, article_type |-> article_type,
                      difficulty |-> difficulty,
                      priority_score |->
                          _calculate_priority_score(article, article_type,
                                                    difficulty, now)]>>,
               ![p].fetched = NoFetch]
    /\ categorized_articles' = [categorized_articles EXCEPT ![p] = <<>>]
    /\ UNCHANGED <<now, rss_object, history_object, overlap, faults,
                   article_age_hours, cycles, delivered, pc, rss_config, cursor,
                   filtered_articles, history_data, history_success, response>>

\* the articles of a batch: well-formed ones that differ in score (95, 100
\* and 90 at 18 hours), category and link, and one for each value that can
\* fail to be a string
BatchTitles == {Text({}, 10), Text({"ninki"}, 10), Text({"kaisetsu", "bunseki"}, 10)}
BatchArticles(clock) ==
    {Article(link, title, NoText, Published(clock - 18), FeedTitle, category) :
        link \in Links, title \in BatchTitles, category \in {"tech", NoCategory}}
    \cup {Article(1, NotAString, Text({"kihon"}, 0), Published(clock - 18),
                  FeedTitle, "tech"),
          Article(1, Text({"ninki", "kihon"}, 10), NotAString, Published(clock - 18),
                  FeedTitle, "tech"),
          Article(1, Text({"ninki"}, 10), NoText, Published(clock - 18),
                  NotAString, "tech")}

MaxBatch == 3

\* single articles with every title, a description and a feed title that
\* hold keywords or are not strings, and two dates and categories
SingleArticles(clock) ==
    {Article(1, title, description, published_at, feed_title, category) :
        title \in Titles,
        description \in {NoText, Text({"ninki", "kaisetsu"}, 0), NotAString},
        feed_title \in {FeedTitle, Text({"ninki"}, 8), NotAString},
        published_at \in {Published(clock - 18), Unparseable},
        category \in {"tech", "news"}}

Batches(clock) ==
    (SeqsUpTo(BatchArticles(clock), MaxBatch) \ {<<>>})
        \cup {<<article>> : article \in SingleArticles(clock)}

\* lines 101-114 of fetch_and_analyze_feeds on one batch of recent articles
Analyze(p) ==
    /\ p = "run1"
    /\ pc[p] = "idle"
    /\ audit[p] = NoAudit
    /\ \E recent_articles \in Batches(now) :
        /\ categorized_articles' =
               [categorized_articles EXCEPT ![p] = AnalyzeRecent(recent_articles, now)]
        /\ audit' = [audit EXCEPT
               ![p].fetched = [NoFetch EXCEPT
                                  !.recent_articles = recent_articles,
                                  !.grouped = Grouped(recent_articles, now)],
               ![p].scored = <<>>]
    /\ UNCHANGED <<now, rss_object, history_object, overlap, faults,
                   article_age_hours, cycles, delivered, pc, rss_config, cursor,
                   filtered_articles, history_data, history_success, response>>

AnalyzeInit ==
    Constructed(DEFAULT_ARTICLE_AGE_HOURS, {StoredRss(TRUE, MixedFeeds)},
                {NoHistoryObject})

AnalyzeNext ==
    \/ \E p \in Procs : Score(p)
    \/ \E p \in Procs : Analyze(p)

AnalyzeSpec == AnalyzeInit /\ [][AnalyzeNext]_vars

\* ------------------------------------------------ overlapping invocations
\* Two invocations of the Lambda run at once on one bucket: nothing in
\* lambda_handler or in S3DataManager serializes them. The feeds return
\* fresh entries, and the stored history is the default one, whose retention
\* removes nothing here.
OverlapEntries(clock) ==
    {Entry(link, MainTitle, NoText, Published(clock - 3)) : link \in Links}

FetchFresh(p) == FetchFrom(p, OverlapEntries(now))

OverlapInit ==
    ConstructedFor(DEFAULT_ARTICLE_AGE_HOURS, {StoredRss(TRUE, MixedFeeds)},
                   {DefaultHistory}, TRUE)

OverlapNext ==
    \/ \E p \in Procs : LoadConfig(p)
    \/ \E p \in Procs : FetchFresh(p)
    \/ \E p \in Procs : Deduplicate(p)
    \/ \E p \in Procs : Send(p)
    \/ \E p \in Procs : AppendLoad(p)
    \/ \E p \in Procs : AppendSave(p)
    \/ \E p \in Procs : UpdateStatistics(p)

OverlapSpec == OverlapInit /\ [][OverlapNext]_vars

\* ------------------------------------------------------------ WebhookLambda
\* A feed command arrives at the webhook Lambda while the notifier runs a
\* cycle on the same bucket: run1 is the notifier's invocation, run2 the
\* webhook's. The user adds a url that is registered (1) or new (NewFeedId),
\* or deletes by a number that is in the list or beyond it.
NewFeedId == 4

Commands ==
    {Command("add", url) : url \in {1, NewFeedId}}
        \cup {Command("delete", number) : number \in 1..4}

\* _categorize_feed: the first category one of whose keywords is in the title
_categorize_feed(title) ==
    IF ~IsString(title) THEN "other"
    ELSE IF "programming" \in title.words THEN "programming"
    ELSE IF "technology" \in title.words THEN "technology"
    ELSE IF "entertainment" \in title.words THEN "entertainment"
    ELSE IF "news" \in title.words THEN "news"
    ELSE "other"

\* _handle_add_command, lines 258-271: the descriptor of the new feed
NewFeed(url, title) == Feed(url, _categorize_feed(title), TRUE, AllFields)

RemoveAt(feeds, index) ==
    SubSeq(feeds, 1, index - 1) \o SubSeq(feeds, index + 1, Len(feeds))

\* lines 273-280 and 319-325: the list is set and its statistics are counted
WithFeeds(config, feeds) ==
    [config EXCEPT !.has_feeds = TRUE,
                   !.feeds = feeds,
                   !.statistics.total_feeds = Len(feeds),
                   !.statistics.active_feeds = Len(ActiveFeeds(feeds))]

Registered(feeds, url) == \E i \in DOMAIN feeds : feeds[i].id = url

\* the handler returns its message
CommandReturn(p, command, outcome) ==
    /\ pc' = [pc EXCEPT ![p] = "done"]
    /\ audit' = [audit EXCEPT ![p].command = [command EXCEPT !.outcome = outcome]]
    /\ UNCHANGED rss_config

\* _handle_add_command, lines 234-280, and _handle_delete_command, lines
\* 295-325: the checks of the argument, the load of the feed list and the
\* edit of the loaded list
CommandLoad(p) ==
    /\ p = "run2"
    /\ pc[p] = "idle"
    /\ audit[p].command = NoCommand
    /\ \E command \in Commands, feed_found \in BOOLEAN,
          get \in GetOutcomes, put \in PutOutcomes :
        LET l == load_rss_config(rss_object, get, put)
            feeds == l.data.feeds
            index == command.arg
        IN IF command.kind = "add" /\ ~feed_found
           THEN \* _validate_rss_feed returned None: nothing is loaded
                /\ get = "ok" /\ put
                /\ CommandReturn(p, command, "no_feed")
                /\ UNCHANGED <<faults, rss_object>>
           ELSE /\ command.kind = "delete" => feed_found
                /\ Environment(get, l.puts, put)
                /\ rss_object' = l.store
                /\ IF l.raised
                   THEN CommandReturn(p, command, "error")
                   ELSE IF command.kind = "add" /\ Registered(feeds, command.arg)
                   THEN CommandReturn(p, command, "registered")
                   ELSE IF command.kind = "delete" /\ index > Len(feeds)
                   THEN CommandReturn(p, command, "no_such_number")
                   ELSE /\ pc' = [pc EXCEPT ![p] = "command"]
                        /\ IF command.kind = "add"
                           THEN /\ rss_config' = [rss_config EXCEPT ![p] =
                                       WithFeeds(l.data,
                                           Append(feeds, NewFeed(command.arg, FeedTitle)))]
                                /\ audit' = [audit EXCEPT ![p].command =
                                       [command EXCEPT !.feed = command.arg]]
                           ELSE /\ rss_config' = [rss_config EXCEPT ![p] =
                                       WithFeeds(l.data, RemoveAt(feeds, index))]
                                /\ audit' = [audit EXCEPT ![p].command =
                                       [command EXCEPT !.feed = feeds[index].id]]
    /\ UNCHANGED <<now, history_object, overlap, article_age_hours, cycles,
                   delivered, categorized_articles, cursor, filtered_articles,
                   history_data, history_success, response>>

\* the cycle of run1 is between its load of the feed list and its return
CycleRunning == pc["run1"] \notin {"idle", "done"}

\* lines 282-288 and 327-333: the edited list is saved
CommandSave(p) ==
    /\ pc[p] = "command"
    /\ \E put \in PutOutcomes :
        LET saved == save_rss_config(rss_object, rss_config[p], put)
            command == audit[p].command
            outcome == IF ~saved.ok THEN "save_failed"
                       ELSE IF command.kind = "add" THEN "added" ELSE "deleted"
        IN /\ Environment("ok", 1, put)
           /\ rss_object' = saved.store
           /\ audit' = [audit EXCEPT ![p].command =
                            [command EXCEPT !.outcome = outcome,
                                            !.in_cycle = CycleRunning]]
    /\ pc' = [pc EXCEPT ![p] = "done"]
    /\ UNCHANGED <<now, history_object, overlap, article_age_hours, cycles,
                   delivered, rss_config, categorized_articles, cursor,
                   filtered_articles, history_data, history_success, response>>

\* the feeds return the fresh entry of one link
FetchOne(p) == FetchFrom(p, FreshEntries(now))

CommandInit ==
    ConstructedFor(DEFAULT_ARTICLE_AGE_HOURS,
                   {NoRssObject, StoredRss(TRUE, MixedFeeds)},
                   {DefaultHistory}, TRUE)

CommandNext ==
    \/ LoadConfig("run1")
    \/ FetchOne("run1")
    \/ Deduplicate("run1")
    \/ Send("run1")
    \/ AppendLoad("run1")
    \/ AppendSave("run1")
    \/ UpdateStatistics("run1")
    \/ CommandLoad("run2")
    \/ CommandSave("run2")

CommandSpec == CommandInit /\ [][CommandNext]_vars

Next ==
    \/ \E p \in Procs : LoadConfig(p)
    \/ \E p \in Procs : Fetch(p)
    \/ \E p \in Procs : Deduplicate(p)
    \/ \E p \in Procs : Send(p)
    \/ \E p \in Procs : AppendLoad(p)
    \/ \E p \in Procs : AppendSave(p)
    \/ \E p \in Procs : UpdateStatistics(p)
    \/ \E p \in Procs : Finish(p)
    \/ Tick

Spec == Init /\ [][Next]_vars

\* ------------------------------------------------------------------ claims
\* the unseen set: the articles handed to the delivery, over all categories
Unseen(p) == Values(filtered_articles[p])
UnseenLinks(p) == {a.link : a \in Range(Unseen(p))}

\* after is before with entries removed and none added
NoNewEntries(before, after) ==
    \E keep \in SUBSET DOMAIN before : after = SelectSeqBy(before, keep)

\* an entry of the link is stored and is younger than the retention age
WithinRetention(link) ==
    \E i \in DOMAIN history_object.history :
        /\ history_object.history[i].link = link
        /\ history_object.history[i].notified_at >
               now - HoursPerDay * history_object.config.cleanup_days

\* C1: a link that is in the stored history when the dedup step of a cycle
\* begins is not in the unseen set the cycle hands to the delivery, whatever
\* the history reads of the step answer.
C1_IdempotentDelivery ==
    \A p \in Procs :
        pc[p] = "send" => UnseenLinks(p) \cap audit[p].links_at_dedup = {}

\* C2: append_notification_history is called only after send_flex_message
\* returned True, and a cycle whose delivery failed ends with status 500, no
\* call of append and no new entry in the stored history.
C2_AppendOnlyAfterDelivery ==
    \A p \in Procs :
        /\ audit[p].append_calls > 0 => audit[p].flex_delivered
        /\ pc[p] \in {"append", "save", "statistics"} => audit[p].flex_delivered
        /\ (pc[p] = "done" /\ audit[p].flex_sends > 0 /\ ~audit[p].flex_delivered)
            => /\ response[p].statusCode = 500
               /\ audit[p].append_calls = 0
               /\ NoNewEntries(audit[p].history_before, history_object.history)

\* a cycle ended after its delivery failed, with a history that held entries
C2_Witness ==
    \E p \in Procs :
        /\ pc[p] = "done"
        /\ audit[p].flex_sends > 0
        /\ ~audit[p].flex_delivered
        /\ audit[p].history_before # <<>>

\* C3: in a sequence of cycles that do not overlap, a cycle does not deliver
\* a link that an earlier cycle delivered and whose history entry is stored
\* and within the retention age.
C3_NoRedelivery ==
    \A p \in Procs :
        pc[p] = "append" =>
            \A link \in UnseenLinks(p) :
                ~(link \in audit[p].delivered_before /\ WithinRetention(link))

\* C4: the unseen set handed to the delivery holds no two articles with the
\* same link.
C4_UniqueLinksInCycle ==
    \A p \in Procs :
        pc[p] = "send" =>
            \A i, j \in DOMAIN Unseen(p) :
                Unseen(p)[i].link = Unseen(p)[j].link => i = j

\* C5: a cycle whose loaded feed list has no enabled descriptor ends with
\* status 200 and zero notifications, and has made no delivery call and no
\* write of the history.
C5_NoOpCycle ==
    \A p \in Procs :
        (/\ pc[p] = "done"
         /\ audit[p].config_returned
         /\ \A i \in DOMAIN rss_config[p].feeds : ~rss_config[p].feeds[i].enabled)
        => /\ response[p].statusCode = 200
           /\ response[p].total_articles = 0
           /\ response[p].categories = <<>>
           /\ audit[p].flex_sends = 0
           /\ audit[p].text_sends = 0
           /\ audit[p].fetches = 0
           /\ audit[p].append_calls = 0
           /\ audit[p].history_puts = 0
           /\ history_object.history = audit[p].history_before

\* a cycle ended whose loaded feed list holds descriptors, all disabled
C5_Witness ==
    \E p \in Procs :
        /\ pc[p] = "done"
        /\ audit[p].config_returned
        /\ rss_config[p].feeds # <<>>
        /\ \A i \in DOMAIN rss_config[p].feeds : ~rss_config[p].feeds[i].enabled

\* C6: a cycle whose dedup step leaves an empty unseen set ends with status
\* 200 and zero notifications, and has made no delivery call and no write of
\* the history.
C6_AllNotifiedCycle ==
    \A p \in Procs :
        (audit[p].dedup_done /\ filtered_articles[p] = <<>>)
        => /\ pc[p] = "done"
           /\ response[p].statusCode = 200
           /\ response[p].total_articles = 0
           /\ response[p].categories = <<>>
           /\ audit[p].flex_sends = 0
           /\ audit[p].text_sends = 0
           /\ audit[p].append_calls = 0
           /\ audit[p].history_puts = 0
           /\ history_object.history = audit[p].history_before

\* a cycle ended whose fetched articles were all in the history
C6_Witness ==
    \E p \in Procs :
        /\ pc[p] = "done"
        /\ audit[p].dedup_done
        /\ filtered_articles[p] = <<>>
        /\ categorized_articles[p] # <<>>

\* C7: a cycle in which a read of the history by the dedup step failed, other
\* than by NoSuchKey, ends with a failure status.
C7_ReadFailureIsFatal ==
    \A p \in Procs :
        (pc[p] = "done" /\ audit[p].read_failures > 0)
        => response[p].statusCode = 500

\* C8: a step in which the stored history loses an entry is the save of
\* append_notification_history, storing the previously stored history with
\* the new entries appended and the retention rules applied.
C8_NeverDeletedWholesale ==
    [][(\E i \in DOMAIN history_object.history :
            history_object.history[i] \notin Range(history_object'.history))
       => \E p \in Procs :
            /\ pc[p] = "save"
            /\ history_object'.history =
                   AppendedHistory(history_object, Unseen(p), now).history]_vars

\* C9: a cycle that finds a stored feed list failing the validation ends with
\* a failure status and has issued no feed fetch.
C9_InvalidConfigIsFatal ==
    \A p \in Procs :
        (pc[p] = "done" /\ audit[p].config_invalid)
        => /\ response[p].statusCode = 500
           /\ audit[p].fetches = 0

\* C10: a cycle whose delivery succeeded and whose history append returned
\* failure ends with status 200, the number of delivered articles and their
\* categories.
C10_AppendFailureNotFatal ==
    \A p \in Procs :
        (/\ pc[p] = "done"
         /\ audit[p].flex_delivered
         /\ audit[p].append_calls > 0
         /\ ~history_success[p])
        => /\ response[p].statusCode = 200
           /\ response[p].total_articles = Len(Unseen(p))
           /\ response[p].total_articles > 0
           /\ response[p].categories = Keys(filtered_articles[p])

\* a cycle ended after a successful delivery and a failed history append
C10_Witness ==
    \E p \in Procs :
        /\ pc[p] = "done"
        /\ audit[p].flex_delivered
        /\ audit[p].append_calls > 0
        /\ ~history_success[p]

\* ------------------------------------------- claims on the fetch coordinator
\* how many times x occurs in the list
Count(list, x) == Cardinality({i \in DOMAIN list : list[i] = x})

\* fetch_and_analyze_feeds has returned from fetching the enabled feeds
HasFetched(p) == audit[p].fetched.results # <<>>

\* the articles the feeds that did not fail returned, as <<feed, entry>> places
ReturnedPlaces(p) ==
    LET results == audit[p].fetched.results
    IN {pl \in (DOMAIN results) \X (1..MaxArticles) :
           /\ ~results[pl[1]].failed
           /\ pl[2] \in DOMAIN results[pl[1]].entries}

ArticleAt(p, pl) ==
    _parse_entry(audit[p].fetched.results[pl[1]].entries[pl[2]],
                 ActiveFeeds(rss_config[p].feeds)[pl[1]])

\* C11: when some of the enabled feeds fail, fetch_and_analyze_feeds returns
\* without an exception, and the articles it aggregates before the recency
\* filter are those of the feeds that did not fail, each as often as returned.
C11_PartialFailureIsolation ==
    \A p \in Procs :
        HasFetched(p) =>
            /\ pc[p] \in {"dedup", "done"}
            /\ pc[p] = "done" => response[p].statusCode = 200
            /\ Len(audit[p].fetched.all_articles) = Cardinality(ReturnedPlaces(p))
            /\ \A pl \in ReturnedPlaces(p) :
                   Count(audit[p].fetched.all_articles, ArticleAt(p, pl))
                       = Cardinality({q \in ReturnedPlaces(p) :
                                         ArticleAt(p, q) = ArticleAt(p, pl)})

\* one feed failed and another returned entries
C11_Witness ==
    \E p \in Procs :
        /\ HasFetched(p)
        /\ \E i, j \in DOMAIN audit[p].fetched.results :
               /\ audit[p].fetched.results[i].failed
               /\ ~audit[p].fetched.results[j].failed
               /\ audit[p].fetched.results[j].entries # <<>>

\* the article's age in hours, for an article whose time can be read
AgeOf(a) == now - a.published_at.at

\* C19: _filter_recent_articles keeps every article whose published time
\* cannot be read, and keeps an article whose time can be read exactly when
\* the time is not older than the window the filter is given.
C19_FailOpenFilter ==
    \A p \in Procs :
        HasFetched(p) =>
            LET all_articles == audit[p].fetched.all_articles
                recent_articles == audit[p].fetched.recent_articles
            IN /\ Range(recent_articles) \subseteq Range(all_articles)
               /\ \A a \in Range(all_articles) :
                      Count(recent_articles, a) =
                          IF ~a.published_at.parse \/ AgeOf(a) <= DEFAULT_RECENT_HOURS
                          THEN Count(all_articles, a)
                          ELSE 0

\* the filter kept an article without a readable time and dropped one older
\* than the window
C19_Witness ==
    \E p \in Procs :
        /\ HasFetched(p)
        /\ \E a \in Range(audit[p].fetched.recent_articles) : ~a.published_at.parse
        /\ \E a \in Range(audit[p].fetched.all_articles) :
               a.published_at.parse /\ AgeOf(a) > DEFAULT_RECENT_HOURS

\* C20: the fetch coordinator drops the articles older than ARTICLE_AGE_HOURS
\* hours and keeps the articles newer than that.
C20_ConfiguredWindow ==
    \A p \in Procs :
        HasFetched(p) =>
            \A a \in Range(audit[p].fetched.all_articles) :
                a.published_at.parse =>
                    /\ AgeOf(a) < article_age_hours
                           => a \in Range(audit[p].fetched.recent_articles)
                    /\ AgeOf(a) > article_age_hours
                           => a \notin Range(audit[p].fetched.recent_articles)

\* ------------------------------------------------- claims on the retention
\* append_notification_history has returned True and the invocation has not
\* moved on: the stored history is what the append saved
Appended(p) == pc[p] = "statistics" /\ history_success[p]

\* the entries the store would hold with nothing evicted: those stored when
\* the append began and the appended ones
AllEntries(p) == audit[p].appended_to.history \o NewEntries(Unseen(p), now)

\* the retention the stored history is configured with
MaxSize == history_object.config.max_history_size
Cutoff == now - HoursPerDay * history_object.config.cleanup_days

\* C12: after an append to a store configured with max size N the stored
\* history holds at most N entries, all of them entries of the store or
\* appended ones, and an entry that is gone is past the retention age or is
\* no newer than any of the N entries that remain.
C12_RetentionBySize ==
    \A p \in Procs :
        Appended(p) =>
            LET after == history_object.history
            IN /\ Len(after) <= MaxSize
               /\ \A e \in Range(after) : Count(after, e) <= Count(AllEntries(p), e)
               /\ \A e \in Range(AllEntries(p)) :
                      Count(after, e) < Count(AllEntries(p), e) =>
                          \/ e.notified_at <= Cutoff
                          \/ /\ Len(after) = MaxSize
                             /\ \A k \in Range(after) : k.notified_at >= e.notified_at

CategoryCounts(entries) ==
    [c \in {entries[i].category : i \in DOMAIN entries} |->
        Cardinality({i \in DOMAIN entries : entries[i].category = c})]

OldestOf(entries) ==
    IF entries = <<>> THEN None
    ELSE Min({entries[i].notified_at : i \in DOMAIN entries})

\* C14: after a successful append the stored total is the number of stored
\* entries, the stored counts per category are those of the stored entries
\* and the stored oldest timestamp is their earliest notification time, none
\* when no entry is stored.
C14_StatisticsRecomputed ==
    \A p \in Procs :
        Appended(p) =>
            LET entries == history_object.history
                st == history_object.statistics
            IN /\ st.total_notifications = Len(entries)
               /\ st.category_stats = CategoryCounts(entries)
               /\ st.oldest_record = OldestOf(entries)

\* whole days since the oldest stored entry, at least 1
DaysSinceOldest(entries) ==
    LET days == (now - OldestOf(entries)) \div HoursPerDay
    IN IF days > 1 THEN days ELSE 1

\* C15: after a successful append the stored average daily rate is, to one
\* decimal, the number of stored entries divided by the whole days since the
\* oldest of them, and divided by 1 when that is less than a day.
C15_AverageDailyRate ==
    \A p \in Procs :
        (Appended(p) /\ history_object.history # <<>>) =>
            history_object.statistics.avg_daily_notifications
                = Round1(Len(history_object.history),
                         DaysSinceOldest(history_object.history))

\* C16: when a cycle has ended, the stored feed list is the list that was
\* stored when the cycle began.
C16_FeedListReadOnly ==
    \A p \in Procs :
        (pc[p] = "done" /\ audit[p].rss_before.present)
        => /\ rss_object.present
           /\ rss_object.feeds = audit[p].rss_before.feeds

\* C17: at every point of a cycle the cycle has read the history object at
\* most once and has put it at most once, and has put it only after its
\* delivery succeeded.
C17_ReadOnceWriteOnce ==
    \A p \in Procs :
        /\ audit[p].history_gets <= 1
        /\ audit[p].history_puts <= 1
        /\ audit[p].history_puts > 0 => audit[p].flex_delivered

\* C18: a load that finds no stored history and returns has returned the
\* empty history with the default retention (1000 entries, 30 days), and that
\* history is stored when the load returns.
C18_FirstRunInitialization ==
    [][\A p \in Procs :
          (pc[p] = "append" /\ ~history_object.present /\ pc'[p] = "save")
          => /\ history_data'[p].history = <<>>
             /\ history_data'[p].config =
                    HistoryConfig(DEFAULT_MAX_HISTORY_SIZE, DEFAULT_CLEANUP_DAYS)
             /\ history_object' = DefaultHistory]_vars

\* ----------------------------------------------------------- the analysis
\* the calls of _calculate_priority_score made so far
ScoreCalls == UNION {Range(audit[p].scored) : p \in Procs}

\* C21: whatever the content-type tag, the difficulty tag, the title's
\* keywords and length and the article's age, _calculate_priority_score
\* returns a value from 0 to 100, and 50 when the computation raises (the
\* title is not a string).
C21_ScoreClamped ==
    \A call \in ScoreCalls :
        /\ call.priority_score \in 0..100
        /\ ~IsString(call.article.title) => call.priority_score = BASE_SCORE

\* a call whose bonuses add up to more than 100 (50 + 30 + 15 + 10 + 20 at
\* least) has returned 100
C21_Witness ==
    \E call \in ScoreCalls :
        /\ call.article_type = "trend"
        /\ call.difficulty = "beginner"
        /\ Matches(call.article.title, PopularKeywords)
        /\ call.article.published_at = Published(now - 3)
        /\ call.priority_score = 100

\* the articles as they were before the analysis
Strip(article) == [article EXCEPT !.metadata = NoMetadata]
StripSeq(articles) == [i \in DOMAIN articles |-> Strip(articles[i])]

\* the batch the last analysis was given
Batch(p) == audit[p].fetched.recent_articles

\* the articles of the list with that score
WithScore(articles, score) ==
    SelectSeq(articles, LAMBDA a : a.metadata.priority_score = score)

\* C22: in every category of the result the scores do not increase along the
\* list, the articles of equal score are in the order in which the batch
\* held them, and the article at position i (from 1) has rank i.
C22_StableRanking ==
    \A p \in Procs : \A n \in DOMAIN categorized_articles[p] :
        LET item == categorized_articles[p][n]
            ranked == item.articles
        IN /\ \A i, j \in DOMAIN ranked :
                  i < j => ranked[i].metadata.priority_score
                               >= ranked[j].metadata.priority_score
           /\ \A i \in DOMAIN ranked : ranked[i].metadata.rank = i
           /\ Batch(p) # <<>> =>
                 \A i \in DOMAIN ranked :
                     LET score == ranked[i].metadata.priority_score
                         same == WithScore(ranked, score)
                     IN StripSeq(same) =
                            SelectSeq(Batch(p),
                                      LAMBDA a : /\ CategoryOf(a) = item.category
                                                 /\ a \in Range(StripSeq(same)))

\* a category of three articles in which the one found last is ranked first
\* and the two others, different and of equal score, follow in batch order
C22_Witness ==
    \E p \in Procs : \E n \in DOMAIN categorized_articles[p] :
        LET ranked == categorized_articles[p][n].articles
        IN /\ Len(ranked) = 3
           /\ Len(Batch(p)) = 3
           /\ Strip(ranked[1]) = Batch(p)[3]
           /\ ranked[1].metadata.priority_score > ranked[2].metadata.priority_score
           /\ ranked[2].metadata.priority_score = ranked[3].metadata.priority_score
           /\ ranked[2].link # ranked[3].link

\* the analysed articles of the result
Analysed(p) ==
    UNION {Range(categorized_articles[p][n].articles) :
              n \in DOMAIN categorized_articles[p]}

WellFormed(article) ==
    IsString(article.title) /\ IsString(article.description)
                            /\ IsString(article.feed_title)

\* C27: an article whose title, description and feed title are strings is
\* tagged by the first of the trend, explainer, tool and analysis term sets
\* its title matches, and news when it matches none; nothing else of the
\* article has a part in it.
C27_FirstMatchClassification ==
    \A p \in Procs : \A a \in Analysed(p) :
        WellFormed(a) =>
            a.metadata.article_type =
                IF Matches(a.title, TrendingKeywords) THEN "trend"
                ELSE IF Matches(a.title, TechnicalKeywords) THEN "explainer"
                ELSE IF Matches(a.title, ToolKeywords) THEN "tool"
                ELSE IF Matches(a.title, AnalysisKeywords) THEN "analysis"
                ELSE "news"

\* an article matching explainer, tool and analysis terms and no trend term
\* is tagged explainer
C27_Witness ==
    \E p \in Procs : \E a \in Analysed(p) :
        /\ WellFormed(a)
        /\ ~Matches(a.title, TrendingKeywords)
        /\ Matches(a.title, TechnicalKeywords)
        /\ Matches(a.title, ToolKeywords)
        /\ Matches(a.title, AnalysisKeywords)
        /\ a.metadata.article_type = "explainer"

\* the label an article is grouped under
Label(article) == IF article.category = NoCategory THEN "other" ELSE article.category

\* C28: the grouping of a batch has one list for each label of the batch and
\* no other, and the list of a label holds the batch's articles of that label
\* (of no label, for "other"), each as often as the batch does and in the
\* order of the batch.
C28_GroupingIsPartition ==
    \A p \in Procs :
        LET batch == Batch(p)
            grouped == audit[p].fetched.grouped
        IN /\ \A i, j \in DOMAIN grouped :
                  grouped[i].category = grouped[j].category => i = j
           /\ \A i \in DOMAIN grouped : grouped[i].articles # <<>>
           /\ \A i \in DOMAIN grouped :
                  StripSeq(grouped[i].articles) =
                      SelectSeq(batch, LAMBDA a : Label(a) = grouped[i].category)
           /\ \A a \in Range(batch) :
                  \E i \in DOMAIN grouped : grouped[i].category = Label(a)

\* a batch of three whose first and third article have the same label and
\* whose second has none
C28_Witness ==
    \E p \in Procs :
        LET batch == Batch(p)
            grouped == audit[p].fetched.grouped
        IN /\ Len(batch) = 3
           /\ batch[1].category = "tech"
           /\ batch[2].category = NoCategory
           /\ batch[3].category = "tech"
           /\ batch[1] # batch[3]
           /\ Len(grouped) = 2
           /\ StripSeq(grouped[1].articles) = <<batch[1], batch[3]>>
           /\ grouped[2].category = "other"
           /\ StripSeq(grouped[2].articles) = <<batch[2]>>

\* C26: every article of an analysed batch is in the result with a content
\* type, a difficulty, a score and a rank, and an article for which a step of
\* the analysis raised (one of its texts is not a string) has the tags news
\* and intermediate and the score 50.
C26_ScoringFailureIsolated ==
    \A p \in Procs :
        Batch(p) # <<>> =>
            /\ Len(Values(categorized_articles[p])) = Len(Batch(p))
            /\ \A a \in Analysed(p) :
                   /\ Strip(a) \in Range(Batch(p))
                   /\ a.metadata.article_type # ""
                   /\ a.metadata.difficulty # ""
                   /\ a.metadata.priority_score \in 0..100
                   /\ a.metadata.rank >= 1
            /\ \A a \in Analysed(p) :
                   ~WellFormed(a) =>
                       /\ a.metadata.article_type = "news"
                       /\ a.metadata.difficulty = "intermediate"
                       /\ a.metadata.priority_score = BASE_SCORE

\* ------------------------------------------------------- the fetch tasks
\* the descriptor's enabled flag is false
Disabled(feed) == "enabled" \in feed.fields /\ ~feed.enabled

\* C23: no fetch task is submitted for a descriptor whose enabled flag is
\* false, no article of such a descriptor is among the aggregated or the
\* returned articles, and a cycle whose descriptors are all disabled has
\* submitted no task and ended with status 200 and an empty result.
C23_OnlyEnabledFetched ==
    \A p \in Procs :
        /\ \A feed \in Range(audit[p].fetched.submitted) : ~Disabled(feed)
        /\ \A a \in Analysed(p) \cup Range(audit[p].fetched.all_articles) :
               \A feed \in Range(rss_config[p].feeds) :
                   feed.id = a.feed_id => ~Disabled(feed)
        /\ (/\ pc[p] \in {"gather", "dedup", "done"}
            /\ audit[p].config_returned
            /\ rss_config[p].feeds # <<>>
            /\ \A feed \in Range(rss_config[p].feeds) : Disabled(feed))
           => /\ pc[p] = "done"
              /\ response[p].statusCode = 200
              /\ categorized_articles[p] = <<>>
              /\ audit[p].fetches = 0

\* a list of two enabled descriptors and a disabled one: two tasks were
\* submitted, both feeds answered and their articles are returned
C23_Witness ==
    \E p \in Procs :
        /\ pc[p] = "dedup"
        /\ \E feed \in Range(rss_config[p].feeds) : Disabled(feed)
        /\ Len(audit[p].fetched.submitted) = 2
        /\ {a.feed_id : a \in Analysed(p)} = {1, 2}

\* C24: when the coordinator has gone on to the recency filter and the
\* analysis, every submitted fetch task has ended, once, having answered or
\* failed, and the aggregated articles are those of all the tasks whose feed
\* answered, whichever tasks failed.
C24_FanInBarrier ==
    \A p \in Procs :
        LET fetched == audit[p].fetched
            n == Len(fetched.submitted)
        IN (pc[p] \in {"dedup", "done"} /\ n > 0)
           => /\ Len(fetched.completed) = n
              /\ Range(fetched.completed) = 1..n
              /\ Len(fetched.all_articles) =
                     Cardinality({pl \in (1..n) \X (1..MaxArticles) :
                                     /\ ~fetched.results[pl[1]].failed
                                     /\ pl[2] \in DOMAIN fetched.results[pl[1]].entries})

\* of two tasks the one that ended first had failed, the other answered
\* afterwards and its article is returned
C24_Witness ==
    \E p \in Procs :
        LET fetched == audit[p].fetched
        IN /\ pc[p] = "dedup"
           /\ Len(fetched.completed) = 2
           /\ fetched.results[fetched.completed[1]].failed
           /\ ~fetched.results[fetched.completed[2]].failed
           /\ Analysed(p) # {}

\* ------------------------------------------------------------ the dedup
RECURSIVE IsSubsequence(_, _)
\* s is t with some elements left out
IsSubsequence(s, t) ==
    IF s = <<>> THEN TRUE
    ELSE IF t = <<>> THEN FALSE
    ELSE IF Head(s) = Head(t) THEN IsSubsequence(Tail(s), Tail(t))
    ELSE IsSubsequence(s, Tail(t))

\* the dedup step has returned and the ranked lists are still at hand
Deduplicated(p) ==
    /\ audit[p].dedup_done
    /\ pc[p] \in {"send", "done"}
    /\ categorized_articles[p] # <<>>

\* C29: when the dedup step has returned, the categories of the unseen set
\* are categories of the ranked result in their order, none has an empty
\* list, and the unseen list of a category is the ranked list of that
\* category with some articles left out.
C29_DedupOnlyRemoves ==
    \A p \in Procs :
        Deduplicated(p) =>
            LET ranked == categorized_articles[p]
                unseen == filtered_articles[p]
            IN /\ IsSubsequence(Keys(unseen), Keys(ranked))
               /\ \A i \in DOMAIN unseen :
                      /\ unseen[i].articles # <<>>
                      /\ \A k \in DOMAIN ranked :
                             ranked[k].category = unseen[i].category
                             => IsSubsequence(unseen[i].articles, ranked[k].articles)

\* the ranked result has two categories, the articles of the first were all
\* notified and the unseen set holds the second only
C29_Witness ==
    \E p \in Procs :
        /\ Deduplicated(p)
        /\ Len(categorized_articles[p]) = 2
        /\ Len(filtered_articles[p]) = 1
        /\ filtered_articles[p][1] = categorized_articles[p][2]
        /\ audit[p].read_failures = 0

\* ------------------------------------------------------------ the overlap
\* the links invocation p handed to a delivery that succeeded
DeliveredBy(p) ==
    IF audit[p].flex_delivered
    THEN {a.link : a \in Range(Values(filtered_articles[p]))}
    ELSE {}

\* C25: append_notification_history is a read-modify-write of the whole
\* object with no guard: the history an invocation stores holds the links of
\* the history it loaded and the links it delivered itself, and nothing
\* another invocation stored between its load and its save.
C25_UnguardedAppend ==
    [][\A p \in Procs :
          (pc[p] = "save" /\ pc'[p] = "statistics" /\ history_success'[p])
          => HistoryLinks(history_object')
                 \subseteq HistoryLinks(audit[p].appended_to) \cup DeliveredBy(p)]_vars

\* both invocations delivered link 1 and both stored their history, and
\* link 2, which one of them delivered and stored, is not in the stored
\* history
C25_Witness ==
    /\ \A p \in Procs :
           /\ pc[p] = "done"
           /\ history_success[p]
           /\ 1 \in DeliveredBy(p)
    /\ \E p \in Procs : 2 \in DeliveredBy(p)
    /\ 2 \notin HistoryLinks(history_object)

\* ------------------------------------------------------ the feed commands
\* the ids of the descriptors of the stored feed list
StoredFeedIds == {rss_object.feeds[i].id : i \in DOMAIN rss_object.feeds}

\* C30: when a cycle and a feed command that was saved while the cycle was
\* running have both ended, the stored feed list holds the descriptor the
\* command added and does not hold the one it deleted.
C30_CommandNotLost ==
    LET command == audit["run2"].command
    IN (pc["run1"] = "done" /\ pc["run2"] = "done" /\ command.in_cycle)
       => /\ command.outcome = "added" => command.feed \in StoredFeedIds
          /\ command.outcome = "deleted" => command.feed \notin StoredFeedIds

====
